---- MODULE Spec2Model ----
(***************************************************************************)
(* A model of pygit2.c, the Python binding of libgit2: the Tree mapping    *)
(* protocol (Tree_getitem, Tree_delitem, Tree_add_entry, Tree_contains)    *)
(* and the Repository / Object / Tag wrappers.  Python values are records, *)
(* Python strings are sequences of one-character strings, and the libgit2  *)
(* calls the binding makes are operators on the native state.              *)
(***************************************************************************)
EXTENDS Integers, Sequences, FiniteSets, TLC

VARIABLES tree, last, lastAdd, py_entry, odb, objs, wr, res, hist, repo

treeVars == <<tree, last, lastAdd, py_entry>>
repoVars == <<odb, objs, wr, res, hist, repo>>
vars == <<tree, last, lastAdd, py_entry, odb, objs, wr, res, hist, repo>>

(* ------------------------------------------------------------------ *)
(* Bounds of the model                                                *)
(* ------------------------------------------------------------------ *)
MaxEntries == 3
MaxWrappers == 2
MaxObjs == 2
MaxWrites == 1

(* ------------------------------------------------------------------ *)
(* Python values                                                      *)
(* ------------------------------------------------------------------ *)
Rep(c, n) == [k \in 1..n |-> c]

PyStr(s) == [t |-> "str", s |-> s, i |-> 0]
PyInt(i) == [t |-> "int", s |-> <<>>, i |-> i]
PyOther == [t |-> "other", s |-> <<>>, i |-> 0]
PyNone == [t |-> "None", s |-> <<>>, i |-> 0]

PyString_Check(o) == o.t = "str"
PyInt_Check(o) == o.t = "int"

NoErr == [exc |-> "none", arg |-> PyOther]
Raise(exc, arg) == [exc |-> exc, arg |-> arg]

(* ------------------------------------------------------------------ *)
(* Identifier codec (git_oid_mkstr / git_oid_fmt as called by the     *)
(* binding)                                                           *)
(* ------------------------------------------------------------------ *)
GIT_OID_HEXSZ == 40
GIT_OID_RAWSZ == GIT_OID_HEXSZ \div 2

HexDigits == <<"0", "1", "2", "3", "4", "5", "6", "7",
               "8", "9", "a", "b", "c", "d", "e", "f">>
UpperDigits == <<"A", "B", "C", "D", "E", "F">>

\* the value of each hexadecimal digit, in either letter case
FromHexTable ==
    [c \in {HexDigits[k] : k \in 1..16} \cup {UpperDigits[k] : k \in 1..6} |->
        IF \E k \in 1..16 : HexDigits[k] = c
        THEN (CHOOSE k \in 1..16 : HexDigits[k] = c) - 1
        ELSE (CHOOSE k \in 1..6 : UpperDigits[k] = c) + 9]

from_hex(c) == IF c \in DOMAIN FromHexTable THEN FromHexTable[c] ELSE -1

\* the character at C offset p of a NUL-terminated string
CharAt(str, p) == IF p + 1 <= Len(str) THEN str[p + 1] ELSE "NUL"

HexPair(str, p) ==
    IF from_hex(CharAt(str, 2 * p)) < 0 \/ from_hex(CharAt(str, 2 * p + 1)) < 0
    THEN -1
    ELSE from_hex(CharAt(str, 2 * p)) * 16 + from_hex(CharAt(str, 2 * p + 1))

git_oid_mkstr(str) ==
    IF \E p \in 0..(GIT_OID_RAWSZ - 1) : HexPair(str, p) < 0
    THEN [err |-> "GIT_ENOTOID", oid |-> <<>>]
    ELSE [err |-> "GIT_SUCCESS",
          oid |-> [p \in 1..GIT_OID_RAWSZ |-> HexPair(str, p - 1)]]

git_oid_fmt(oid) ==
    [k \in 1..GIT_OID_HEXSZ |->
        IF k % 2 = 1 THEN HexDigits[(oid[(k + 1) \div 2] \div 16) + 1]
                     ELSE HexDigits[(oid[k \div 2] % 16) + 1]]

py_str_to_git_oid(py_str) ==
    IF ~PyString_Check(py_str)
    THEN [err |-> "GIT_ENOTOID", oid |-> <<>>]
    ELSE git_oid_mkstr(py_str.s)

Error_set(err) ==
    CASE err = "GIT_ENOMEM" -> Raise("MemoryError", PyOther)
      [] err = "GIT_EOSERR" -> Raise("GitError_errno", PyOther)
      [] err = "GIT_EOBJTYPE" -> Raise("GitError_objtype", PyOther)
      [] OTHER -> Raise("GitError", PyOther)

\* a variant that does not look at the type of the offending input
Error_set_py_str_untyped(err, py_str) ==
    CASE err = "GIT_ENOTOID" -> Raise("ValueError", py_str)
      [] err = "GIT_ENOTFOUND" -> Raise("KeyError", py_str)
      [] err = "GIT_EOBJCORRUPTED" -> Raise("GitError_corrupted", py_str)
      [] OTHER -> Error_set(err)

Error_set_py_str(err, py_str) ==
    CASE err = "GIT_ENOTOID" ->
            IF ~PyString_Check(py_str) THEN Raise("TypeError", PyOther)
            ELSE Raise("ValueError", py_str)
      [] err = "GIT_ENOTFOUND" -> Raise("KeyError", py_str)
      [] err = "GIT_EOBJCORRUPTED" -> Raise("GitError_corrupted", py_str)
      [] OTHER -> Error_set(err)

(* ------------------------------------------------------------------ *)
(* The native tree (git_tree): an array of entries that libgit2 keeps *)
(* sorted by file name                                                *)
(* ------------------------------------------------------------------ *)
Ord(c) == IF from_hex(c) >= 0 THEN from_hex(c) ELSE 99

RECURSIVE strcmp(_, _)
strcmp(a, b) ==
    IF a = <<>> /\ b = <<>> THEN 0
    ELSE IF a = <<>> THEN -1
    ELSE IF b = <<>> THEN 1
    ELSE IF Ord(Head(a)) < Ord(Head(b)) THEN -1
    ELSE IF Ord(Head(a)) > Ord(Head(b)) THEN 1
    ELSE strcmp(Tail(a), Tail(b))

NoEntry == [name |-> <<>>, attr |-> 0, oid |-> <<>>]

IsSorted(t) == \A k \in 1..(Len(t) - 1) : strcmp(t[k].name, t[k + 1].name) <= 0

InsertAt(t, pos, e) ==
    [k \in 1..(Len(t) + 1) |-> IF k < pos THEN t[k] ELSE IF k = pos THEN e ELSE t[k - 1]]

\* qsort of the entry array: every ordering of the same entries that is sorted
\* by name (the order qsort gives entries of equal name is not specified)
RECURSIVE entry_resort(_)
entry_resort(t) ==
    IF t = <<>> THEN {<<>>}
    ELSE LET e == t[Len(t)]
         IN  UNION {{InsertAt(s, pos, e) :
                        pos \in {q \in 1..(Len(s) + 1) : IsSorted(InsertAt(s, q, e))}} :
                    s \in entry_resort(SubSeq(t, 1, Len(t) - 1))}

git_tree_entrycount(t) == Len(t)

\* the slot (1-based) of the entry at C index idx, 0 for NULL
git_tree_entry_byindex(t, idx) == IF idx >= 0 /\ idx < Len(t) THEN idx + 1 ELSE 0

\* bsearch by name: the slots it may return, {0} (NULL) when none matches
git_tree_entry_byname(t, name) ==
    IF \E k \in 1..Len(t) : t[k].name = name
    THEN {k \in 1..Len(t) : t[k].name = name}
    ELSE {0}

RemoveAt(t, slot) == [k \in 1..(Len(t) - 1) |-> IF k < slot THEN t[k] ELSE t[k + 1]]

\* the trees git_tree_remove_entry_byindex may leave, {} when it fails
git_tree_remove_entry_byindex(t, idx) ==
    IF idx < 0 \/ idx >= Len(t) THEN {}
    ELSE entry_resort(RemoveAt(t, idx + 1))

git_tree_remove_entry_byname(t, name) ==
    IF git_tree_entry_byname(t, name) = {0} THEN {}
    ELSE UNION {git_tree_remove_entry_byindex(t, k - 1) : k \in git_tree_entry_byname(t, name)}

git_tree_add_entry(t, oid, name, attr) ==
    entry_resort(Append(t, [name |-> name, attr |-> attr, oid |-> oid]))

(* ------------------------------------------------------------------ *)
(* Inputs of the Tree operations                                      *)
(* ------------------------------------------------------------------ *)
Names == {<<"a">>, <<"b">>, <<"c">>}

ShaLower == Rep("a", GIT_OID_HEXSZ)
ShaUpper == Rep("B", GIT_OID_HEXSZ)
ShaShort == Rep("a", GIT_OID_HEXSZ - 1)
ShaNonHex == [k \in 1..GIT_OID_HEXSZ |-> IF k = GIT_OID_HEXSZ THEN "g" ELSE "a"]

\* the argument tuples add_entry is called with: well-formed ones (two of them
\* for the same name) and one of each way of being malformed
AddArgs ==
    {<<PyStr(ShaLower), PyStr(<<"a">>), PyInt(33188)>>,
     <<PyStr(ShaUpper), PyStr(<<"a">>), PyInt(16384)>>,
     <<PyStr(ShaUpper), PyStr(<<"b">>), PyInt(16384)>>,
     <<PyStr(ShaLower), PyStr(<<"c">>), PyInt(33188)>>,
     <<PyStr(ShaShort), PyStr(<<"a">>), PyInt(33188)>>,
     <<PyStr(ShaNonHex), PyStr(<<"a">>), PyInt(33188)>>,
     <<PyOther, PyStr(<<"a">>), PyInt(33188)>>,
     <<PyStr(ShaLower), PyOther, PyInt(33188)>>,
     <<PyStr(ShaLower), PyStr(<<"a">>), PyOther>>}
IndexArgs == {PyInt(i) : i \in (0 - MaxEntries - 1)..(MaxEntries + 1)}
KeyArgs == {PyStr(n) : n \in Names} \cup IndexArgs \cup {PyOther}
\* keys of the calls that do not resolve an index
PlainKeyArgs == {PyStr(n) : n \in Names} \cup {PyInt(-1), PyInt(0), PyInt(MaxEntries), PyOther}

\* lower-casing of a text, defined apart from the codec
ToLowerChar(c) ==
    IF \E k \in 1..6 : UpperDigits[k] = c
    THEN HexDigits[(CHOOSE k \in 1..6 : UpperDigits[k] = c) + 10]
    ELSE c
ToLower(str) == [k \in 1..Len(str) |-> ToLowerChar(str[k])]

IsHexChar(c) == (\E k \in 1..16 : HexDigits[k] = c) \/ (\E k \in 1..6 : UpperDigits[k] = c)
ValidSha(o) == /\ PyString_Check(o)
               /\ Len(o.s) = GIT_OID_HEXSZ
               /\ \A k \in 1..Len(o.s) : IsHexChar(o.s[k])

(* ------------------------------------------------------------------ *)
(* What the last call did: its arguments, the tree before it, the     *)
(* value it returned and the error it set                             *)
(* ------------------------------------------------------------------ *)
Outcome(op, key, name, attr, pre, entry, ret, err) ==
    [op |-> op, key |-> key, name |-> name, attr |-> attr, pre |-> pre,
     entry |-> entry, ret |-> ret, err |-> err]

NoCall == Outcome("none", PyOther, PyOther, PyOther, <<>>, NoEntry, 0, NoErr)
NoAdd == [live |-> FALSE, sha |-> PyOther, name |-> <<>>, attr |-> 0, dup |-> FALSE]

(* ------------------------------------------------------------------ *)
(* Tree: len, in, [], del, add_entry                                  *)
(* ------------------------------------------------------------------ *)
Tree_len(t) == git_tree_entrycount(t)

\* the values name && git_tree_entry_byname(...) ? 1 : 0 may take
Tree_contains(t, py_name) ==
    IF ~PyString_Check(py_name) THEN {[ret |-> 0, err |-> Raise("TypeError", PyOther)]}
    ELSE {[ret |-> IF k # 0 THEN 1 ELSE 0, err |-> NoErr] :
             k \in git_tree_entry_byname(t, py_name.s)}

\* wrap_tree_entry: the wrapper points at the slot; entry is what it reads there
wrap_tree_entry(t, slot) == [entry |-> t[slot], err |-> NoErr]

Tree_getitem_by_name(t, py_name) ==
    {IF k = 0 THEN [entry |-> NoEntry, err |-> Raise("KeyError", py_name)]
              ELSE wrap_tree_entry(t, k) :
        k \in git_tree_entry_byname(t, py_name.s)}

Tree_fix_index_strict(t, py_index) ==
    LET index == py_index.i
        slen == git_tree_entrycount(t)
    IN  IF index >= slen THEN [ret |-> -1, err |-> Raise("IndexError", py_index)]
        ELSE IF index <= 0 - slen THEN [ret |-> -1, err |-> Raise("IndexError", py_index)]
        ELSE IF index < 0 THEN [ret |-> slen + index, err |-> NoErr]
        ELSE [ret |-> index, err |-> NoErr]

Tree_fix_index(t, py_index) ==
    LET index == py_index.i
        slen == git_tree_entrycount(t)
    IN  IF index >= slen THEN [ret |-> -1, err |-> Raise("IndexError", py_index)]
        ELSE IF index < 0 - slen THEN [ret |-> -1, err |-> Raise("IndexError", py_index)]
        ELSE IF index < 0 THEN [ret |-> slen + index, err |-> NoErr]
        ELSE [ret |-> index, err |-> NoErr]

Tree_getitem_by_index(t, py_index) ==
    LET fix == Tree_fix_index(t, py_index)
        slot == git_tree_entry_byindex(t, fix.ret)
    IN  IF fix.err # NoErr THEN {[entry |-> NoEntry, err |-> fix.err]}
        ELSE IF slot = 0 THEN {[entry |-> NoEntry, err |-> Raise("IndexError", py_index)]}
        ELSE {wrap_tree_entry(t, slot)}

Tree_getitem(t, value) ==
    IF PyString_Check(value) THEN Tree_getitem_by_name(t, value)
    ELSE IF PyInt_Check(value) THEN Tree_getitem_by_index(t, value)
    ELSE {[entry |-> NoEntry, err |-> Raise("TypeError", PyOther)]}

\* a delete yields the tree it leaves, the int it returns and the error set
Tree_delitem_by_name_silent(t, name) ==
    IF git_tree_remove_entry_byname(t, name.s) = {}
    THEN {[tree |-> t, ret |-> 0, err |-> NoErr]}
    ELSE {[tree |-> t2, ret |-> 0, err |-> NoErr] :
             t2 \in git_tree_remove_entry_byname(t, name.s)}

Tree_delitem_by_name(t, name) ==
    IF git_tree_remove_entry_byname(t, name.s) = {}
    THEN {[tree |-> t, ret |-> -1, err |-> Raise("KeyError", name)]}
    ELSE {[tree |-> t2, ret |-> 0, err |-> NoErr] :
             t2 \in git_tree_remove_entry_byname(t, name.s)}

Tree_delitem_by_index_raw(t, py_index) ==
    IF git_tree_remove_entry_byindex(t, py_index.i) = {}
    THEN {[tree |-> t, ret |-> -1, err |-> Raise("IndexError", py_index)]}
    ELSE {[tree |-> t2, ret |-> 0, err |-> NoErr] :
             t2 \in git_tree_remove_entry_byindex(t, py_index.i)}

Tree_delitem_by_index(t, py_index) ==
    LET fix == Tree_fix_index(t, py_index)
    IN  IF fix.err # NoErr THEN {[tree |-> t, ret |-> -1, err |-> fix.err]}
        ELSE IF git_tree_remove_entry_byindex(t, fix.ret) = {}
        THEN {[tree |-> t, ret |-> -1, err |-> Raise("IndexError", py_index)]}
        ELSE {[tree |-> t2, ret |-> 0, err |-> NoErr] :
                 t2 \in git_tree_remove_entry_byindex(t, fix.ret)}

Tree_delitem_key_first(t, name, hasValue) ==
    IF PyString_Check(name) THEN Tree_delitem_by_name(t, name)
    ELSE IF PyInt_Check(name) THEN Tree_delitem_by_index(t, name)
    ELSE IF hasValue THEN {[tree |-> t, ret |-> -1, err |-> Raise("ValueError", PyOther)]}
    ELSE {[tree |-> t, ret |-> -1, err |-> Raise("TypeError", PyOther)]}

\* hasValue: tree[name] = value (TRUE) or del tree[name] (FALSE)
Tree_delitem(t, name, hasValue) ==
    IF hasValue THEN {[tree |-> t, ret |-> -1, err |-> Raise("ValueError", PyOther)]}
    ELSE IF PyString_Check(name) THEN Tree_delitem_by_name(t, name)
    ELSE IF PyInt_Check(name) THEN Tree_delitem_by_index(t, name)
    ELSE {[tree |-> t, ret |-> -1, err |-> Raise("TypeError", PyOther)]}

Tree_add_entry_no_mode(t, py_sha, py_name, py_attr, nomem) ==
    LET conv == py_str_to_git_oid(py_sha)
    IN  IF ~PyString_Check(py_name) \/ ~PyInt_Check(py_attr)
        THEN {[tree |-> t, ret |-> -1, err |-> Raise("TypeError", PyOther)]}
        ELSE IF conv.err # "GIT_SUCCESS"
        THEN {[tree |-> t, ret |-> -1, err |-> Error_set_py_str(conv.err, py_sha)]}
        ELSE IF nomem
        THEN {[tree |-> t, ret |-> -1, err |-> Raise("MemoryError", PyOther)]}
        ELSE {[tree |-> t2, ret |-> 0, err |-> NoErr] :
                 t2 \in git_tree_add_entry(t, conv.oid, py_name.s, 0)}

\* nomem: git_tree_add_entry could not grow the entry array
Tree_add_entry(t, py_sha, py_name, py_attr, nomem) ==
    LET conv == py_str_to_git_oid(py_sha)
    IN  IF ~PyString_Check(py_name) \/ ~PyInt_Check(py_attr)
        THEN {[tree |-> t, ret |-> -1, err |-> Raise("TypeError", PyOther)]}
        ELSE IF conv.err # "GIT_SUCCESS"
        THEN {[tree |-> t, ret |-> -1, err |-> Error_set_py_str(conv.err, py_sha)]}
        ELSE IF nomem
        THEN {[tree |-> t, ret |-> -1, err |-> Raise("MemoryError", PyOther)]}
        ELSE {[tree |-> t2, ret |-> 0, err |-> NoErr] :
                 t2 \in git_tree_add_entry(t, conv.oid, py_name.s, py_attr.i)}

\* a variant that loses the last character of the text
TreeEntry_get_sha_short(entry) == SubSeq(git_oid_fmt(entry.oid), 1, GIT_OID_HEXSZ - 1)

TreeEntry_get_sha(entry) == git_oid_fmt(entry.oid)
TreeEntry_get_name(entry) == entry.name
TreeEntry_get_attributes(entry) == entry.attr

git_tree_entry_set_id(entry, oid) == [entry EXCEPT !.oid = oid]

\* entry.sha = value: the entry it leaves, the int it returns, the error set
TreeEntry_set_sha(entry, value) ==
    LET conv == py_str_to_git_oid(value)
    IN  IF conv.err # "GIT_SUCCESS"
        THEN [entry |-> entry, ret |-> -1, err |-> Error_set_py_str(conv.err, value)]
        ELSE [entry |-> git_tree_entry_set_id(entry, conv.oid), ret |-> 0, err |-> NoErr]

\* A TreeEntry holds the address of a native entry.  entry is the slot of the
\* tree that holds this address, 0 once the native entry is freed; freed is
\* what the native entry held when it was freed.
NoTreeEntry == [live |-> FALSE, entry |-> 0, freed |-> NoEntry]

TreeEntry_dealloc(self) == NoTreeEntry

\* the slots a successful del tree[key] may remove
RemovedSlots(t, key) ==
    IF PyString_Check(key) THEN git_tree_entry_byname(t, key.s)
    ELSE {Tree_fix_index(t, key).ret + 1}

\* the TreeEntry after the tree went from t to t2 and freed the native entry
\* of slot rm (0: none): the address is kept as it is
EntryAfter(self, t, t2, rm) ==
    IF ~self.live \/ self.entry = 0 THEN {self}
    ELSE IF self.entry = rm THEN {[self EXCEPT !.entry = 0, !.freed = t[rm]]}
    ELSE {[self EXCEPT !.entry = k] : k \in {j \in 1..Len(t2) : t2[j] = t[self.entry]}}

\* what a read through self->entry finds: the native entry, or, when it is
\* freed, what it held, anything else, or no readable memory
Deref(t, self) ==
    IF self.entry # 0 THEN {[ok |-> TRUE, entry |-> t[self.entry]]}
    ELSE {[ok |-> TRUE, entry |-> self.freed], [ok |-> TRUE, entry |-> NoEntry],
          [ok |-> FALSE, entry |-> NoEntry]}


(* ------------------------------------------------------------------ *)
(* The object store: the object database (odb) and the native objects *)
(* (git_object) libgit2 hands out                                     *)
(* ------------------------------------------------------------------ *)
GIT_OBJ_COMMIT == 1
GIT_OBJ_TREE == 2
GIT_OBJ_BLOB == 3
GIT_OBJ_TAG == 4
\* the type Repository_getitem hands to git_repository_lookup: any type
GIT_OBJ_ANY == -2

ObjTypes == {GIT_OBJ_COMMIT, GIT_OBJ_TREE, GIT_OBJ_BLOB, GIT_OBJ_TAG}

\* body stands for the content of the object other than its target; frees
\* counts the calls of git_object_free on the object
NoObj == [used |-> FALSE, type |-> 0, in_memory |-> FALSE, oid |-> <<>>,
          target |-> 0, ttype |-> 0, body |-> 0, frees |-> 0]

\* the objects the repository holds when it is opened: a commit and a tag of it
FixtureBody == 255
FixtureCommitOid == <<GIT_OBJ_COMMIT, FixtureBody>> \o Rep(0, GIT_OID_RAWSZ - 2)
FixtureTagOid == <<GIT_OBJ_TAG>> \o SubSeq(FixtureCommitOid, 1, GIT_OID_RAWSZ - 1)
FixtureOdb ==
    {[oid |-> FixtureCommitOid, type |-> GIT_OBJ_COMMIT, toid |-> <<>>, body |-> FixtureBody],
     [oid |-> FixtureTagOid, type |-> GIT_OBJ_TAG, toid |-> FixtureCommitOid, body |-> 0]}

\* the identifier the store gives an object it writes: a hash of its content
\* (here of its type and body and, for a tag, of the identifier of its target)
WriteOid(type, body, toid) ==
    IF type = GIT_OBJ_TAG THEN <<GIT_OBJ_TAG>> \o SubSeq(toid, 1, GIT_OID_RAWSZ - 1)
    ELSE <<type, body>> \o Rep(0, GIT_OID_RAWSZ - 2)

FreeHandles(os) == {h \in DOMAIN os : ~os[h].used}
NewHandle(os) == CHOOSE h \in FreeHandles(os) : \A g \in FreeHandles(os) : h <= g

git_odb_exists(db, oid) == IF \E o \in db : o.oid = oid THEN 1 ELSE 0

\* git_odb_read: the raw object of that identifier
git_odb_read(db, oid) ==
    IF \E o \in db : o.oid = oid
    THEN [err |-> "GIT_SUCCESS", raw |-> CHOOSE o \in db : o.oid = oid]
    ELSE [err |-> "GIT_ENOTFOUND", raw |-> NoObj]

git_object_type(os, h) == os[h].type
git_object_id(os, h) == IF os[h].in_memory THEN <<>> ELSE os[h].oid
git_tag_target(os, h) == os[h].target
git_tag_type(os, h) == os[h].ttype

\* git_object_new: a new in-memory object without identifier; h = 0 when no
\* memory is left
git_object_new(os, type) ==
    LET h == NewHandle(os)
    IN  [objs |-> [os EXCEPT ![h] = [used |-> TRUE, type |-> type, in_memory |-> TRUE,
                                     oid |-> <<>>, target |-> 0, ttype |-> 0,
                                     body |-> 0, frees |-> 0]],
         h |-> h]

git_tag_set_target(os, h, t) ==
    [os EXCEPT ![h].target = t, ![h].ttype = git_object_type(os, t)]

\* git_repository_lookup: the object of that identifier the repository already
\* holds in memory, else the one it loads from the odb (with its target, for a
\* tag); h = 0 (NULL) when the odb has none.  The outcomes are a set: empty
\* when the model has no handle left for the load.
RECURSIVE git_repository_lookup(_, _, _)
git_repository_lookup(os, db, oid) ==
    LET cached == {h \in DOMAIN os : /\ os[h].used /\ os[h].frees = 0
                                     /\ ~os[h].in_memory /\ os[h].oid = oid}
        stored == {o \in db : o.oid = oid}
    IN  IF cached # {} THEN {[objs |-> os, h |-> h] : h \in cached}
        ELSE IF stored = {} THEN {[objs |-> os, h |-> 0]}
        ELSE LET o == CHOOSE x \in stored : TRUE
             IN  IF o.type # GIT_OBJ_TAG
                 THEN IF FreeHandles(os) = {} THEN {}
                      ELSE {[objs |-> [os EXCEPT ![NewHandle(os)] =
                                          [used |-> TRUE, type |-> o.type,
                                           in_memory |-> FALSE, oid |-> oid,
                                           target |-> 0, ttype |-> 0,
                                           body |-> o.body, frees |-> 0]],
                             h |-> NewHandle(os)]}
                 ELSE UNION {
                        IF t.h = 0 THEN {[objs |-> os, h |-> 0]}
                        ELSE IF FreeHandles(t.objs) = {} THEN {}
                        ELSE {[objs |-> [t.objs EXCEPT ![NewHandle(t.objs)] =
                                            [used |-> TRUE, type |-> GIT_OBJ_TAG,
                                             in_memory |-> FALSE, oid |-> oid,
                                             target |-> t.h,
                                             ttype |-> git_object_type(t.objs, t.h),
                                             body |-> o.body, frees |-> 0]],
                               h |-> NewHandle(t.objs)]} :
                        t \in git_repository_lookup(os, db, o.toid)}

\* git_object_write: fails (fail names the error code) or stores the object
\* under the identifier of its content.  A tag can be written only once its
\* target has an identifier.
Writable(os, h) ==
    os[h].type = GIT_OBJ_TAG =>
        (os[h].target # 0 /\ git_object_id(os, os[h].target) # <<>>)

git_object_write(os, db, h, fail) ==
    IF fail # "GIT_SUCCESS" THEN [err |-> fail, objs |-> os, odb |-> db]
    ELSE IF ~Writable(os, h) THEN [err |-> "GIT_EMISSINGOBJDATA", objs |-> os, odb |-> db]
    ELSE LET toid == IF os[h].type = GIT_OBJ_TAG THEN git_object_id(os, os[h].target)
                     ELSE <<>>
             oid == WriteOid(os[h].type, os[h].body, toid)
         IN  [err |-> "GIT_SUCCESS",
              objs |-> [os EXCEPT ![h].in_memory = FALSE, ![h].oid = oid],
              odb |-> db \cup {[oid |-> oid, type |-> os[h].type, toid |-> toid,
                                body |-> os[h].body]}]

\* git_object_free: the object leaves the repository's table of objects in
\* memory and its memory is given back
git_object_free(os, h) == [os EXCEPT ![h].frees = @ + 1]

(* ------------------------------------------------------------------ *)
(* The wrappers: Repository, Object (Commit, Tree, Blob), Tag         *)
(* ------------------------------------------------------------------ *)
\* held: the caller has a reference to the wrapper (one of the ob_refcnt
\* counted); repo: 1 when self->repo is set, 0 when it is NULL; written: a
\* write() on the wrapper has succeeded; freed: tp_free has been called on it
NoWrapper == [live |-> FALSE, kind |-> 0, obj |-> 0, own_obj |-> 0, target |-> 0,
              held |-> FALSE, written |-> FALSE, ob_refcnt |-> 0, repo |-> 0,
              freed |-> FALSE]

\* tp_free: the memory of a wrapper is given back; the model does not hand it
\* out again
tp_free == [NoWrapper EXCEPT !.freed = TRUE]

\* the Repository wrapper: its reference count, whether the caller has one of
\* the references, and its git_repository handle (1 open, 0 freed)
NewRepository == [ob_refcnt |-> 1, held |-> TRUE, handle |-> 1]

FreeWrappers(ws) == {w \in DOMAIN ws : ~ws[w].live /\ ~ws[w].freed}
tp_alloc(ws) == CHOOSE w \in FreeWrappers(ws) : \A v \in FreeWrappers(ws) : w <= v

\* where the chain of tag targets from h ends: at an object that is no tag
\* ("ok"), at a tag without target ("null"), or nowhere ("cycle")
RECURSIVE TargetChain(_, _, _)
TargetChain(os, h, fuel) ==
    IF h = 0 THEN "null"
    ELSE IF os[h].type # GIT_OBJ_TAG THEN "ok"
    ELSE IF fuel = 0 THEN "cycle"
    ELSE TargetChain(os, os[h].target, fuel - 1)

\* wrap_object and wrap_tag: one wrapper for obj and, for a tag, one for its
\* target and so on.  status is "ok", "crash" (git_object_type of a NULL
\* target, or a recursion without end) or "full" (the model has no wrapper left).
\* increfs counts the Py_INCREF(repo) made.
RECURSIVE wrap_object(_, _, _)
wrap_object(ws, os, h) ==
    IF TargetChain(os, h, Cardinality(DOMAIN os)) # "ok"
    THEN [status |-> "crash", wr |-> ws, w |-> 0, increfs |-> 0]
    ELSE IF FreeWrappers(ws) = {} THEN [status |-> "full", wr |-> ws, w |-> 0, increfs |-> 0]
    ELSE LET w == tp_alloc(ws)
             mine == [live |-> TRUE, kind |-> git_object_type(os, h), obj |-> h,
                      own_obj |-> 0, target |-> 0, held |-> FALSE, written |-> FALSE,
                      ob_refcnt |-> 1, repo |-> 1, freed |-> FALSE]
         IN  IF git_object_type(os, h) # GIT_OBJ_TAG
             THEN [status |-> "ok", wr |-> [ws EXCEPT ![w] = mine], w |-> w, increfs |-> 1]
             ELSE LET py_target == wrap_object([ws EXCEPT ![w] = mine], os,
                                               git_tag_target(os, h))
                  IN  IF py_target.status # "ok"
                      THEN [status |-> py_target.status, wr |-> ws, w |-> 0, increfs |-> 0]
                      ELSE [status |-> "ok",
                            wr |-> [py_target.wr EXCEPT
                                      ![w].target = py_target.w,
                                      ![py_target.w].ob_refcnt = @ + 1],
                            w |-> w, increfs |-> py_target.increfs + 1]

Repository_contains(os, db, value) ==
    LET conv == py_str_to_git_oid(value)
    IN  IF conv.err # "GIT_SUCCESS"
        THEN [ret |-> -1, err |-> Error_set_py_str(conv.err, value)]
        ELSE [ret |-> git_odb_exists(db, conv.oid), err |-> NoErr]

\* Repository.read(py_hex): the (type, data) of the raw object
Repository_read(db, py_hex) ==
    LET conv == py_str_to_git_oid(py_hex)
        got == git_odb_read(db, conv.oid)
    IN  IF conv.err # "GIT_SUCCESS"
        THEN [val |-> PyNone, err |-> Error_set_py_str(conv.err, py_hex)]
        ELSE IF got.err # "GIT_SUCCESS"
        THEN [val |-> PyNone, err |-> Error_set_py_str(got.err, py_hex)]
        ELSE [val |-> [t |-> "tuple", s |-> <<got.raw.body>>, i |-> got.raw.type],
              err |-> NoErr]

\* a variant that keys the KeyError by the identifier parsed from value
Repository_getitem_parsed_key(ws, os, db, value) ==
    LET conv == py_str_to_git_oid(value)
    IN  IF conv.err # "GIT_SUCCESS"
        THEN {[err |-> Error_set_py_str(conv.err, value), wr |-> ws, objs |-> os, w |-> 0,
              increfs |-> 0]}
        ELSE UNION {
               IF found.h = 0
               THEN {[err |-> Error_set_py_str("GIT_ENOTFOUND", PyStr(git_oid_fmt(conv.oid))),
                      wr |-> ws, objs |-> os, w |-> 0,
              increfs |-> 0]}
               ELSE LET py_obj == wrap_object(ws, found.objs, found.h)
                    IN  IF py_obj.status = "full" THEN {}
                        ELSE IF py_obj.status = "crash"
                        THEN {[err |-> Raise("Crash", PyOther), wr |-> ws, objs |-> os,
                               w |-> 0, increfs |-> 0]}
                        ELSE {[err |-> NoErr,
                               wr |-> [py_obj.wr EXCEPT ![py_obj.w].own_obj = 0,
                                                        ![py_obj.w].held = TRUE],
                               objs |-> found.objs, w |-> py_obj.w,
                               increfs |-> py_obj.increfs]} :
               found \in git_repository_lookup(os, db, conv.oid)}

\* the outcomes of repo[value]: the error set, the wrappers and native objects
\* after the call, and the wrapper returned (0 for NULL)
Repository_getitem(ws, os, db, value) ==
    LET conv == py_str_to_git_oid(value)
    IN  IF conv.err # "GIT_SUCCESS"
        THEN {[err |-> Error_set_py_str(conv.err, value), wr |-> ws, objs |-> os, w |-> 0,
              increfs |-> 0]}
        ELSE UNION {
               IF found.h = 0
               THEN {[err |-> Error_set_py_str("GIT_ENOTFOUND", value),
                      wr |-> ws, objs |-> os, w |-> 0,
              increfs |-> 0]}
               ELSE LET py_obj == wrap_object(ws, found.objs, found.h)
                    IN  IF py_obj.status = "full" THEN {}
                        ELSE IF py_obj.status = "crash"
                        THEN {[err |-> Raise("Crash", PyOther), wr |-> ws, objs |-> os,
                               w |-> 0, increfs |-> 0]}
                        ELSE {[err |-> NoErr,
                               wr |-> [py_obj.wr EXCEPT ![py_obj.w].own_obj = 0,
                                                        ![py_obj.w].held = TRUE],
                               objs |-> found.objs, w |-> py_obj.w,
                               increfs |-> py_obj.increfs]} :
               found \in git_repository_lookup(os, db, conv.oid)}

Object_get_type(ws, os, w) == PyInt(git_object_type(os, ws[w].obj))

Object_get_sha(ws, os, w) ==
    IF git_object_id(os, ws[w].obj) = <<>> THEN PyNone
    ELSE PyStr(git_oid_fmt(git_object_id(os, ws[w].obj)))

Object_write(ws, os, db, w, fail) ==
    LET done == git_object_write(os, db, ws[w].obj, fail)
    IN  IF done.err # "GIT_SUCCESS"
        THEN [err |-> Error_set_py_str(done.err, Object_get_sha(ws, os, w)),
              wr |-> ws, objs |-> os, odb |-> db]
        ELSE [err |-> NoErr, wr |-> [ws EXCEPT ![w].written = TRUE],
              objs |-> done.objs, odb |-> done.odb]

\* a variant that takes no reference to the Repository
Object_init_with_type_no_incref(ws, os, type, kwds, isRepo, nomem) ==
    IF kwds THEN [err |-> Raise("TypeError", PyOther), wr |-> ws, objs |-> os,
          w |-> 0, increfs |-> 0]
    ELSE IF ~isRepo THEN [err |-> Raise("TypeError", PyOther), wr |-> ws, objs |-> os,
          w |-> 0, increfs |-> 0]
    ELSE IF nomem THEN [err |-> Raise("MemoryError", PyOther), wr |-> ws, objs |-> os,
          w |-> 0, increfs |-> 0]
    ELSE LET made == git_object_new(os, type)
             w == tp_alloc(ws)
         IN  [err |-> NoErr,
              wr |-> [ws EXCEPT ![w] = [live |-> TRUE, kind |-> type, obj |-> made.h,
                                        own_obj |-> 1, target |-> 0, held |-> TRUE,
                                        written |-> FALSE, ob_refcnt |-> 1,
                                        repo |-> 1, freed |-> FALSE]],
              objs |-> made.objs, w |-> w, increfs |-> 0]

\* kwds: keyword arguments were given; isRepo: the argument is a Repository;
\* nomem: git_object_new returned NULL
Object_init_with_type(ws, os, type, kwds, isRepo, nomem) ==
    IF kwds THEN [err |-> Raise("TypeError", PyOther), wr |-> ws, objs |-> os,
          w |-> 0, increfs |-> 0]
    ELSE IF ~isRepo THEN [err |-> Raise("TypeError", PyOther), wr |-> ws, objs |-> os,
          w |-> 0, increfs |-> 0]
    ELSE IF nomem THEN [err |-> Raise("MemoryError", PyOther), wr |-> ws, objs |-> os,
          w |-> 0, increfs |-> 0]
    ELSE LET made == git_object_new(os, type)
             w == tp_alloc(ws)
         IN  [err |-> NoErr,
              wr |-> [ws EXCEPT ![w] = [live |-> TRUE, kind |-> type, obj |-> made.h,
                                        own_obj |-> 1, target |-> 0, held |-> TRUE,
                                        written |-> FALSE, ob_refcnt |-> 1,
                                        repo |-> 1, freed |-> FALSE]],
              objs |-> made.objs, w |-> w, increfs |-> 1]

Tag_get_target(ws, os, w) ==
    LET target == git_tag_target(os, ws[w].obj)
    IN  IF target = 0
        THEN [err |-> NoErr, wr |-> ws, w |-> 0, status |-> "ok", increfs |-> 0]
        ELSE LET py_obj == wrap_object(ws, os, target)
             IN  IF py_obj.status = "crash"
                 THEN [err |-> Raise("Crash", PyOther), wr |-> ws, w |-> 0,
                       status |-> "crash", increfs |-> 0]
                 ELSE IF py_obj.status = "full"
                 THEN [err |-> NoErr, wr |-> ws, w |-> 0, status |-> "full", increfs |-> 0]
                 ELSE [err |-> NoErr, wr |-> [py_obj.wr EXCEPT ![py_obj.w].held = TRUE],
                       w |-> py_obj.w, status |-> "ok", increfs |-> py_obj.increfs]

\* git_repository_free: the handle is given back
\* the paths a Repository is opened with: a repository and no repository
Paths == {<<"r">>, <<"x">>}

\* git_repository_open: the handle of the repository at path, 0 if none
git_repository_open(path) == IF path = <<"r">> THEN 1 ELSE 0

\* PyArg_ParseTuple(args, "s"): one argument, a text
PyArg_ParseTuple_s(args) == Len(args) = 1 /\ PyString_Check(args[1])

\* a variant that opens the store before it looks at its arguments
Repository_init_open_first(self, args, kwds) ==
    LET path == IF PyArg_ParseTuple_s(args) THEN args[1].s ELSE <<"r">>
        opened == git_repository_open(path)
    IN  IF kwds THEN [ret |-> -1, err |-> Raise("TypeError", PyOther),
                      self |-> [self EXCEPT !.handle = opened], opens |-> 1]
        ELSE IF ~PyArg_ParseTuple_s(args)
        THEN [ret |-> -1, err |-> Raise("TypeError", PyOther),
              self |-> [self EXCEPT !.handle = opened], opens |-> 1]
        ELSE IF opened = 0
        THEN [ret |-> -1, err |-> Raise("RuntimeError", args[1]), self |-> self,
              opens |-> 1]
        ELSE [ret |-> 0, err |-> NoErr, self |-> [self EXCEPT !.handle = opened],
              opens |-> 1]

\* Repository.__init__(*args, **kwds) on the Repository self; opens counts the
\* calls of git_repository_open
Repository_init(self, args, kwds) ==
    IF kwds THEN [ret |-> -1, err |-> Raise("TypeError", PyOther), self |-> self,
                  opens |-> 0]
    ELSE IF ~PyArg_ParseTuple_s(args)
    THEN [ret |-> -1, err |-> Raise("TypeError", PyOther), self |-> self, opens |-> 0]
    ELSE LET opened == git_repository_open(args[1].s)
         IN  IF opened = 0
             THEN [ret |-> -1, err |-> Raise("RuntimeError", args[1]), self |-> self,
                   opens |-> 1]
             ELSE [ret |-> 0, err |-> NoErr, self |-> [self EXCEPT !.handle = opened],
                   opens |-> 1]

git_repository_free(rp) == [rp EXCEPT !.handle = 0]

Repository_dealloc(rp) ==
    IF rp.handle # 0 THEN git_repository_free(rp) ELSE rp

\* Py_DECREF of the Repository: its deallocator runs when the count reaches 0
Py_DECREF_repo(rp) ==
    IF rp.ob_refcnt > 1 THEN [rp EXCEPT !.ob_refcnt = @ - 1]
    ELSE Repository_dealloc([rp EXCEPT !.ob_refcnt = 0])

\* the deallocator of Commit, Tree and Blob (inherited from Object); a step
\* is the wrappers, the native objects and the Repository it leaves
Object_dealloc(ws, os, rp, w) ==
    [wr |-> [ws EXCEPT ![w] = tp_free],
     objs |-> IF ws[w].own_obj # 0 THEN git_object_free(os, ws[w].obj) ELSE os,
     repo |-> IF ws[w].repo # 0 THEN Py_DECREF_repo(rp) ELSE rp]

\* Py_DECREF of a wrapper: its deallocator runs when the count reaches 0.
\* Tag_dealloc releases the target and frees the wrapper, nothing else.
RECURSIVE Py_DECREF(_, _, _, _)
Tag_dealloc(ws, os, rp, w) ==
    IF ws[w].target = 0
    THEN [wr |-> [ws EXCEPT ![w] = tp_free], objs |-> os, repo |-> rp]
    ELSE LET released == Py_DECREF(ws, os, rp, ws[w].target)
         IN  [released EXCEPT !.wr = [released.wr EXCEPT ![w] = tp_free]]

Py_DECREF(ws, os, rp, w) ==
    IF ws[w].ob_refcnt > 1
    THEN [wr |-> [ws EXCEPT ![w].ob_refcnt = @ - 1], objs |-> os, repo |-> rp]
    ELSE IF ws[w].kind = GIT_OBJ_TAG
    THEN Tag_dealloc([ws EXCEPT ![w].ob_refcnt = 0], os, rp, w)
    ELSE Object_dealloc(ws, os, rp, w)

\* w < 0 stands for a TreeEntry, whose count is not followed
Py_XDECREF(ws, os, rp, w) ==
    IF w <= 0 THEN [wr |-> ws, objs |-> os, repo |-> rp] ELSE Py_DECREF(ws, os, rp, w)

\* a variant that records the target in the wrapper only
Tag_set_target_slot_only(ws, os, rp, w, x) ==
    IF x = 0
    THEN [ret |-> -1, err |-> Raise("TypeError", PyOther), wr |-> ws, objs |-> os,
          repo |-> rp]
    ELSE LET old == Py_XDECREF(ws, os, rp, ws[w].target)
         IN  [ret |-> 0, err |-> NoErr,
              wr |-> [old.wr EXCEPT ![w].target = x, ![x].ob_refcnt = @ + 1],
              objs |-> old.objs,
              repo |-> old.repo]

\* x: the wrapper assigned, 0 for a value that is no instance of ObjectType
Tag_set_target(ws, os, rp, w, x) ==
    IF x = 0
    THEN [ret |-> -1, err |-> Raise("TypeError", PyOther), wr |-> ws, objs |-> os,
          repo |-> rp]
    ELSE LET old == Py_XDECREF(ws, os, rp, ws[w].target)
         IN  [ret |-> 0, err |-> NoErr,
              wr |-> [old.wr EXCEPT ![w].target = x, ![x].ob_refcnt = @ + 1],
              objs |-> git_tag_set_target(old.objs, ws[w].obj, ws[x].obj),
              repo |-> old.repo]

\* tag.target = entry, a TreeEntry.  TreeEntryType.tp_base is ObjectType, so the
\* value passes PyObject_TypeCheck(target, &ObjectType); target->obj is then
\* read past the end of the TreeEntry struct and handed to git_tag_set_target.
\* The slot -1 stands for the TreeEntry, the native target -1 for what was
\* read; the call ends the process or returns 0 with the tag changed.
Tag_set_target_entry(ws, os, rp, w) ==
    LET old == Py_XDECREF(ws, os, rp, ws[w].target)
        slot == [old.wr EXCEPT ![w].target = -1]
    IN  {[ret |-> 0, err |-> NoErr, wr |-> slot,
          objs |-> [old.objs EXCEPT ![ws[w].obj].target = -1, ![ws[w].obj].ttype = 0],
          repo |-> old.repo],
         [ret |-> 0, err |-> Raise("Crash", PyOther), wr |-> slot, objs |-> old.objs,
          repo |-> old.repo]}

\* the content a setter leaves in the native object: which field was set
\* last, and a digest n of the value
Content(field, n) == field * 16 + n
FieldMessage == 1
FieldCommitter == 2
FieldAuthor == 3
FieldName == 4
FieldTagger == 5

git_commit_set_message(os, h, message) ==
    [os EXCEPT ![h].body = Content(FieldMessage, Len(message))]
git_commit_set_committer(os, h, name, email, time) ==
    [os EXCEPT ![h].body = Content(FieldCommitter, time)]
git_commit_set_author(os, h, name, email, time) ==
    [os EXCEPT ![h].body = Content(FieldAuthor, time)]
git_tag_set_name(os, h, name) ==
    [os EXCEPT ![h].body = Content(FieldName, Len(name))]
git_tag_set_tagger(os, h, name, email, time) ==
    [os EXCEPT ![h].body = Content(FieldTagger, time)]
git_tag_set_message(os, h, message) ==
    [os EXCEPT ![h].body = Content(FieldMessage, Len(message))]

\* PyArg_ParseTuple(value, "ssL", ...): the error it sets, NoErr when value is
\* a tuple of two texts and an integer
PyTuple_Check(value) == value.t = "args"
PyArg_ParseTuple_ssL(value) ==
    IF ~PyTuple_Check(value) THEN Raise("SystemError", PyOther)
    ELSE IF Len(value.s) # 3 THEN Raise("TypeError", PyOther)
    ELSE IF ~PyString_Check(value.s[1]) \/ ~PyString_Check(value.s[2])
            \/ ~PyInt_Check(value.s[3])
    THEN Raise("TypeError", PyOther)
    ELSE NoErr

\* the setters of a Commit and of a Tag on the native object h: the int they
\* return, the error set and the native objects they leave
Commit_set_message(os, h, message) ==
    IF ~PyString_Check(message)
    THEN [ret |-> -1, err |-> Raise("TypeError", PyOther), objs |-> os]
    ELSE [ret |-> 0, err |-> NoErr, objs |-> git_commit_set_message(os, h, message.s)]

Commit_set_committer(os, h, value) ==
    IF PyArg_ParseTuple_ssL(value) # NoErr
    THEN [ret |-> -1, err |-> PyArg_ParseTuple_ssL(value), objs |-> os]
    ELSE [ret |-> 0, err |-> NoErr,
          objs |-> git_commit_set_committer(os, h, value.s[1].s, value.s[2].s, value.s[3].i)]

Commit_set_author(os, h, value) ==
    IF PyArg_ParseTuple_ssL(value) # NoErr
    THEN [ret |-> -1, err |-> PyArg_ParseTuple_ssL(value), objs |-> os]
    ELSE [ret |-> 0, err |-> NoErr,
          objs |-> git_commit_set_author(os, h, value.s[1].s, value.s[2].s, value.s[3].i)]

Tag_set_name(os, h, py_name) ==
    IF ~PyString_Check(py_name)
    THEN [ret |-> -1, err |-> Raise("TypeError", PyOther), objs |-> os]
    ELSE [ret |-> 0, err |-> NoErr, objs |-> git_tag_set_name(os, h, py_name.s)]

Tag_set_tagger(os, h, value) ==
    IF PyArg_ParseTuple_ssL(value) # NoErr
    THEN [ret |-> -1, err |-> PyArg_ParseTuple_ssL(value), objs |-> os]
    ELSE [ret |-> 0, err |-> NoErr,
          objs |-> git_tag_set_tagger(os, h, value.s[1].s, value.s[2].s, value.s[3].i)]

Tag_set_message(os, h, message) ==
    IF ~PyString_Check(message)
    THEN [ret |-> -1, err |-> Raise("TypeError", PyOther), objs |-> os]
    ELSE [ret |-> 0, err |-> NoErr, objs |-> git_tag_set_message(os, h, message.s)]

Tag_get_target_type(ws, os, w) ==
    IF ws[w].target = 0 THEN PyNone
    ELSE PyInt(git_tag_type(os, ws[w].obj))

(* ------------------------------------------------------------------ *)
(* The repository and its objects as a state machine                  *)
(* ------------------------------------------------------------------ *)
ToUpperChar(c) ==
    IF \E k \in 11..16 : HexDigits[k] = c
    THEN UpperDigits[(CHOOSE k \in 11..16 : HexDigits[k] = c) - 10]
    ELSE c
ToUpper(str) == [k \in 1..Len(str) |-> ToUpperChar(str[k])]

\* identifier texts the caller passes: of the stored commit and tag, of a blob
\* that may or may not have been written, of no object at all (in upper case),
\* a malformed one, and whatever a write has returned
StoredShaArgs ==
    {PyStr(git_oid_fmt(FixtureCommitOid)),
     PyStr(git_oid_fmt(FixtureTagOid)),
     PyStr(git_oid_fmt(WriteOid(GIT_OBJ_BLOB, 0, <<>>))),
     PyStr(ShaUpper), PyStr(ShaShort)}
ShaArgs == StoredShaArgs \cup {PyStr(t) : t \in hist.writes}

\* the types the factories are called for
NewTypes == {GIT_OBJ_BLOB, GIT_OBJ_TAG}

\* the argument lists of a factory: (keyword arguments given, the argument is
\* a Repository, the store is out of memory)
InitArgs == {<<FALSE, TRUE, FALSE>>, <<TRUE, TRUE, FALSE>>,
             <<FALSE, FALSE, FALSE>>, <<FALSE, TRUE, TRUE>>}

\* the arguments of a call as the value of a result
PyArgs(args) == [t |-> "args", s |-> args, i |-> 0]

Result(op, w, x, key, val, obj, err) ==
    [op |-> op, w |-> w, x |-> x, key |-> key, val |-> val, obj |-> obj, err |-> err]
NoResult == Result("none", 0, 0, PyOther, PyNone, 0, NoErr)

Crashed == res.err.exc = "Crash"
LiveWrappers == {w \in DOMAIN wr : wr[w].live}
\* the wrappers the caller can call: those it has a reference to
HeldWrappers == {w \in LiveWrappers : wr[w].held}
HeldTags == {w \in HeldWrappers : wr[w].kind = GIT_OBJ_TAG}

\* what the step just taken adds to the record of the run: the identifier a
\* successful write left, whether a wrapper lost its identifier, and whether a
\* wrapper got one by anything but a successful write of its object
Recorded ==
    LET wrote == res'.op = "write" /\ res'.err = NoErr
    IN  hist' =
          [writes |-> IF wrote THEN hist.writes \cup {Object_get_sha(wr', objs', res'.w).s}
                      ELSE hist.writes,
           lost |-> \/ hist.lost
                    \/ \E w \in LiveWrappers :
                          /\ wr'[w].live
                          /\ Object_get_sha(wr, objs, w) # PyNone
                          /\ Object_get_sha(wr', objs', w) = PyNone,
           gained |-> \/ hist.gained
                      \/ \E w \in LiveWrappers :
                            /\ wr'[w].live
                            /\ Object_get_sha(wr, objs, w) = PyNone
                            /\ Object_get_sha(wr', objs', w) # PyNone
                            /\ ~(wrote /\ wr[res'.w].obj = wr[w].obj)]

ObjNew ==
    /\ ~Crashed
    /\ repo.held
    /\ FreeWrappers(wr) # {} /\ FreeHandles(objs) # {}
    /\ \E type \in NewTypes, args \in InitArgs :
         LET r == Object_init_with_type(wr, objs, type, args[1], args[2], args[3])
         IN  /\ wr' = r.wr
             /\ objs' = r.objs
             /\ repo' = [repo EXCEPT !.ob_refcnt = @ + r.increfs]
             /\ res' = Result("new", r.w, 0, PyInt(type), PyArgs(args), r.w, r.err)
             /\ UNCHANGED odb
    /\ Recorded
    /\ UNCHANGED treeVars

RepoGetitem ==
    /\ ~Crashed
    /\ repo.held
    /\ \E value \in ShaArgs : \E r \in Repository_getitem(wr, objs, odb, value) :
           /\ wr' = r.wr
           /\ objs' = r.objs
           /\ repo' = [repo EXCEPT !.ob_refcnt = @ + r.increfs]
           /\ res' = Result("getitem", 0, 0, value, PyNone, r.w, r.err)
           /\ UNCHANGED odb
    /\ Recorded
    /\ UNCHANGED treeVars

ObjWrite ==
    /\ ~Crashed
    /\ \E w \in HeldWrappers, fail \in {"GIT_SUCCESS", "GIT_EOSERR"} :
           LET r == Object_write(wr, objs, odb, w, fail)
           IN  /\ Cardinality(r.odb) <= Cardinality(FixtureOdb) + MaxWrites
               /\ wr' = r.wr
               /\ objs' = r.objs
               /\ odb' = r.odb
               /\ res' = Result("write", w, 0, PyOther, PyNone, 0, r.err)
               /\ UNCHANGED repo
    /\ Recorded
    /\ UNCHANGED treeVars

TagGetTarget ==
    /\ ~Crashed
    /\ \E w \in HeldTags :
           LET r == Tag_get_target(wr, objs, w)
           IN  /\ r.status # "full"
               /\ wr' = r.wr
               /\ repo' = [repo EXCEPT !.ob_refcnt = @ + r.increfs]
               /\ res' = Result("target", w, 0, PyOther, PyNone, r.w, r.err)
               /\ UNCHANGED <<odb, objs>>
    /\ Recorded
    /\ UNCHANGED treeVars

TagSetTarget ==
    /\ ~Crashed
    /\ \E w \in HeldTags, x \in HeldWrappers \cup {0} :
           LET r == Tag_set_target(wr, objs, repo, w, x)
           IN  /\ wr' = r.wr
               /\ objs' = r.objs
               /\ repo' = r.repo
               /\ res' = Result("set_target", w, x, PyOther, PyInt(r.ret), 0, r.err)
               /\ UNCHANGED odb
    /\ Recorded
    /\ UNCHANGED treeVars

\* the caller gives up its reference to a wrapper
DropWrapper ==
    /\ ~Crashed
    /\ \E w \in HeldWrappers :
           LET r == Py_DECREF([wr EXCEPT ![w].held = FALSE], objs, repo, w)
           IN  /\ wr' = r.wr
               /\ objs' = r.objs
               /\ repo' = r.repo
               /\ res' = Result("del", w, 0, PyOther, PyNone, 0, NoErr)
               /\ UNCHANGED odb
    /\ Recorded
    /\ UNCHANGED treeVars

\* the caller gives up its reference to the Repository
DropRepo ==
    /\ ~Crashed
    /\ repo.held
    /\ repo' = Py_DECREF_repo([repo EXCEPT !.held = FALSE])
    /\ res' = Result("del_repo", 0, 0, PyOther, PyNone, 0, NoErr)
    /\ UNCHANGED <<odb, objs, wr>>
    /\ Recorded
    /\ UNCHANGED treeVars

\* a call on a wrapper whose native object has been freed reads freed memory:
\* it may go on as if the memory were intact (the actions above) or end the
\* process (this action)
UseFreed ==
    /\ ~Crashed
    /\ \E w \in HeldWrappers :
           /\ objs[wr[w].obj].frees > 0
           /\ res' = Result("use", w, 0, PyOther, PyNone, 0, Raise("Crash", PyOther))
    /\ UNCHANGED <<odb, objs, wr, repo>>
    /\ Recorded
    /\ UNCHANGED treeVars

HeldCommits == {w \in HeldWrappers : wr[w].kind = GIT_OBJ_COMMIT}

\* the values assigned to message and name: a text and two values that are none
TextArgs == {PyStr(<<"m">>), PyInt(7), PyOther}

\* the values assigned to committer, author and tagger: a (name, email, time)
\* triple, tuples of the wrong length or with a field of the wrong type, and
\* a value that is no tuple
PersonArgs ==
    {PyArgs(<<PyStr(<<"n">>), PyStr(<<"e">>), PyInt(1)>>),
     PyArgs(<<PyStr(<<"n">>), PyStr(<<"e">>)>>),
     PyArgs(<<PyStr(<<"n">>), PyInt(7), PyInt(1)>>),
     PyArgs(<<PyStr(<<"n">>), PyStr(<<"e">>), PyOther>>),
     PyOther}

\* Commit(repo)
CommitNew ==
    /\ ~Crashed
    /\ repo.held
    /\ FreeWrappers(wr) # {} /\ FreeHandles(objs) # {}
    /\ \E args \in InitArgs :
         LET r == Object_init_with_type(wr, objs, GIT_OBJ_COMMIT, args[1], args[2], args[3])
         IN  /\ wr' = r.wr
             /\ objs' = r.objs
             /\ repo' = [repo EXCEPT !.ob_refcnt = @ + r.increfs]
             /\ res' = Result("new", r.w, 0, PyInt(GIT_OBJ_COMMIT), PyArgs(args), r.w, r.err)
             /\ UNCHANGED odb
    /\ Recorded
    /\ UNCHANGED treeVars

\* commit.message = value
CommitSetMessage ==
    /\ ~Crashed
    /\ \E w \in HeldCommits, value \in TextArgs :
         LET r == Commit_set_message(objs, wr[w].obj, value)
         IN  /\ objs' = r.objs
             /\ res' = Result("set_message", w, 0, value, PyInt(r.ret), 0, r.err)
             /\ UNCHANGED <<odb, wr, repo>>
    /\ Recorded
    /\ UNCHANGED treeVars

\* commit.committer = value
CommitSetCommitter ==
    /\ ~Crashed
    /\ \E w \in HeldCommits, value \in PersonArgs :
         LET r == Commit_set_committer(objs, wr[w].obj, value)
         IN  /\ objs' = r.objs
             /\ res' = Result("set_committer", w, 0, value, PyInt(r.ret), 0, r.err)
             /\ UNCHANGED <<odb, wr, repo>>
    /\ Recorded
    /\ UNCHANGED treeVars

\* commit.author = value
CommitSetAuthor ==
    /\ ~Crashed
    /\ \E w \in HeldCommits, value \in PersonArgs :
         LET r == Commit_set_author(objs, wr[w].obj, value)
         IN  /\ objs' = r.objs
             /\ res' = Result("set_author", w, 0, value, PyInt(r.ret), 0, r.err)
             /\ UNCHANGED <<odb, wr, repo>>
    /\ Recorded
    /\ UNCHANGED treeVars

\* tag.name = value
TagSetName ==
    /\ ~Crashed
    /\ \E w \in HeldTags, value \in TextArgs :
         LET r == Tag_set_name(objs, wr[w].obj, value)
         IN  /\ objs' = r.objs
             /\ res' = Result("set_name", w, 0, value, PyInt(r.ret), 0, r.err)
             /\ UNCHANGED <<odb, wr, repo>>
    /\ Recorded
    /\ UNCHANGED treeVars

\* tag.tagger = value
TagSetTagger ==
    /\ ~Crashed
    /\ \E w \in HeldTags, value \in PersonArgs :
         LET r == Tag_set_tagger(objs, wr[w].obj, value)
         IN  /\ objs' = r.objs
             /\ res' = Result("set_tagger", w, 0, value, PyInt(r.ret), 0, r.err)
             /\ UNCHANGED <<odb, wr, repo>>
    /\ Recorded
    /\ UNCHANGED treeVars

\* tag.message = value
TagSetMessage ==
    /\ ~Crashed
    /\ \E w \in HeldTags, value \in TextArgs :
         LET r == Tag_set_message(objs, wr[w].obj, value)
         IN  /\ objs' = r.objs
             /\ res' = Result("set_message", w, 0, value, PyInt(r.ret), 0, r.err)
             /\ UNCHANGED <<odb, wr, repo>>
    /\ Recorded
    /\ UNCHANGED treeVars

\* tag.target = entry, a TreeEntry (x = -1)
TagSetTargetEntry ==
    /\ ~Crashed
    /\ \E w \in HeldTags : \E r \in Tag_set_target_entry(wr, objs, repo, w) :
           /\ wr' = r.wr
           /\ objs' = r.objs
           /\ repo' = r.repo
           /\ res' = Result("set_target", w, -1, PyOther, PyInt(r.ret), 0, r.err)
           /\ UNCHANGED odb
    /\ Recorded
    /\ UNCHANGED treeVars

\* the factories and the setters of Commit and Tag
MutNext ==
    \/ ObjNew
    \/ CommitNew
    \/ CommitSetMessage
    \/ CommitSetCommitter
    \/ CommitSetAuthor
    \/ TagSetName
    \/ TagSetTagger
    \/ TagSetMessage
    \/ TagSetTarget
    \/ TagSetTargetEntry

\* the arguments Repository is called with: none, a path, a path and more,
\* no text; each with and without keywords
OpenArgs ==
    {<<>>, <<PyInt(7)>>} \cup {<<PyStr(p)>> : p \in Paths}
        \cup {<<PyStr(p), PyOther>> : p \in Paths}

\* Repository(*args, **kwds): a second Repository is allocated and initialised;
\* the caller keeps no reference to it, so it is destroyed before the call
\* returns.  The result records the handle __init__ bound (obj) and the
\* number of git_repository_open calls (x).
RepoOpen ==
    /\ ~Crashed
    /\ \E args \in OpenArgs, kwds \in BOOLEAN :
         LET self == [ob_refcnt |-> 1, held |-> TRUE, handle |-> 0]
             r == Repository_init(self, args, kwds)
         IN  res' = Result("open", 0, r.opens, PyArgs(args),
                           IF kwds THEN PyOther ELSE PyNone, r.self.handle, r.err)
    /\ UNCHANGED <<odb, objs, wr, repo>>
    /\ Recorded
    /\ UNCHANGED treeVars

\* construction and destruction
InitNext ==
    \/ ObjNew
    \/ RepoOpen
    \/ DropWrapper
    \/ DropRepo

\* every hexadecimal digit in both letter cases, in turn
AllDigits == HexDigits \o UpperDigits
Cycle(from, n) == [k \in 1..n |-> AllDigits[((from + k - 2) % Len(AllDigits)) + 1]]

\* the identifier texts of the calls on entries: well-formed ones in lower,
\* upper and mixed case, and malformed ones that are too short, too long,
\* empty, or have a character that is no digit
OidTexts ==
    {ShaLower, ShaUpper, Cycle(1, GIT_OID_HEXSZ), Cycle(2, GIT_OID_HEXSZ),
     ShaShort, ShaNonHex, <<"g">> \o ShaShort, <<>>,
     ShaLower \o <<"a">>, Cycle(1, GIT_OID_HEXSZ + 2)}
OidArgs == {PyStr(t) : t \in OidTexts} \cup {PyOther}

\* the identifier texts of the calls on the Repository: the text of a stored
\* object, the same in upper case with one more character, one that is too
\* short and one with a character that is no digit
StoreOidArgs ==
    {PyStr(git_oid_fmt(FixtureCommitOid)),
     PyStr(ToUpper(git_oid_fmt(FixtureTagOid)) \o <<"0">>),
     PyStr(ShaShort), PyStr(ShaNonHex)}

\* value in repo
OidContains ==
    /\ \E value \in StoreOidArgs :
         LET r == Repository_contains(objs, odb, value)
         IN  res' = Result("contains", 0, 0, value, PyInt(r.ret), 0, r.err)
    /\ UNCHANGED <<odb, objs, wr, hist, repo>>
    /\ UNCHANGED treeVars

\* repo.read(py_hex)
OidRead ==
    /\ \E py_hex \in StoreOidArgs :
         LET r == Repository_read(odb, py_hex)
         IN  res' = Result("read", 0, 0, py_hex, r.val, 0, r.err)
    /\ UNCHANGED <<odb, objs, wr, hist, repo>>
    /\ UNCHANGED treeVars

\* tree.add_entry(py_sha, "a", 0100644) on the empty tree
OidAddEntry ==
    /\ tree = <<>>
    /\ \E py_sha \in OidArgs :
         LET py_name == PyStr(<<"a">>)
             py_attr == PyInt(33188)
         IN  \E r \in Tree_add_entry(tree, py_sha, py_name, py_attr, FALSE) :
                /\ tree' = r.tree
                /\ last' = Outcome("add_entry", py_sha, py_name, py_attr, tree, NoEntry,
                                   r.ret, r.err)
                /\ lastAdd' = IF r.err = NoErr
                              THEN [live |-> TRUE, sha |-> py_sha, name |-> py_name.s,
                                    attr |-> py_attr.i, dup |-> FALSE]
                              ELSE lastAdd
                /\ UNCHANGED py_entry
    /\ UNCHANGED repoVars

\* tree[k].sha = value, then tree[k].sha: name is the text read back
OidSetSha ==
    /\ \E slot \in 1..Len(tree), value \in OidArgs :
         LET r == TreeEntry_set_sha(tree[slot], value)
         IN  /\ tree' = [tree EXCEPT ![slot] = r.entry]
             /\ last' = Outcome("set_sha", value, PyStr(TreeEntry_get_sha(r.entry)),
                                PyOther, tree, r.entry, r.ret, r.err)
             /\ UNCHANGED <<lastAdd, py_entry>>
    /\ UNCHANGED repoVars

\* the calls that take the text of an identifier
OidNext ==
    \/ OidContains
    \/ OidRead
    \/ OidAddEntry
    \/ OidSetSha

\* the negative codes of libgit2
ErrCodes ==
    {"GIT_ERROR", "GIT_ENOTOID", "GIT_ENOTFOUND", "GIT_ENOMEM", "GIT_EOSERR",
     "GIT_EOBJTYPE", "GIT_EOBJCORRUPTED", "GIT_ENOTAREPO", "GIT_EINVALIDTYPE",
     "GIT_EMISSINGOBJDATA", "GIT_EPACKCORRUPTED", "GIT_EFLOCKFAIL", "GIT_EZLIB",
     "GIT_EBUSY", "GIT_EBAREINDEX"}

\* the offending inputs handed to the translator: texts, well-formed or not,
\* and values that are no text
ErrInputs ==
    {PyStr(ShaLower), PyStr(ShaUpper), PyStr(ShaShort), PyStr(ShaNonHex), PyStr(<<>>),
     PyInt(0), PyInt(7), PyNone, PyOther}

\* a code as the value of a result
ErrCode(err) == [t |-> "code", s |-> <<err>>, i |-> 0]

\* a failure with code err of a call that was given py_str
ErrorSetPyStr ==
    /\ \E err \in ErrCodes, py_str \in ErrInputs :
           res' = Result("Error_set_py_str", 0, 0, py_str, ErrCode(err), 0,
                         Error_set_py_str(err, py_str))
    /\ UNCHANGED <<odb, objs, wr, hist, repo>>
    /\ UNCHANGED treeVars

\* a failure with code err of a call without an offending input
ErrorSet ==
    /\ \E err \in ErrCodes :
           res' = Result("Error_set", 0, 0, PyOther, ErrCode(err), 0, Error_set(err))
    /\ UNCHANGED <<odb, objs, wr, hist, repo>>
    /\ UNCHANGED treeVars

ErrNext ==
    \/ ErrorSetPyStr
    \/ ErrorSet

\* the type constants of the module, which a caller has for the type it wants
TypeFilters == {GIT_OBJ_ANY} \cup ObjTypes

\* repo[value] by a caller that wants an object of type type_filter:
\* Repository_getitem takes the key alone and asks for GIT_OBJ_ANY
RepoLookup ==
    /\ ~Crashed
    /\ repo.held
    /\ \E value \in ShaArgs, type_filter \in TypeFilters :
           \E r \in Repository_getitem(wr, objs, odb, value) :
               /\ wr' = r.wr
               /\ objs' = r.objs
               /\ repo' = [repo EXCEPT !.ob_refcnt = @ + r.increfs]
               /\ res' = Result("lookup", 0, type_filter, value, PyNone, r.w, r.err)
               /\ UNCHANGED odb
    /\ Recorded
    /\ UNCHANGED treeVars

\* lookups among factories, writes and releases
LookupNext ==
    \/ ObjNew
    \/ ObjWrite
    \/ RepoLookup
    \/ DropWrapper

\* the calls that build, look up, write and link objects
RepoNext ==
    \/ ObjNew
    \/ RepoGetitem
    \/ ObjWrite
    \/ TagGetTarget
    \/ TagSetTarget

\* the same with the caller giving up references
LifeNext ==
    \/ ObjNew
    \/ RepoGetitem
    \/ ObjWrite
    \/ TagGetTarget
    \/ TagSetTarget
    \/ DropWrapper
    \/ DropRepo
    \/ UseFreed

\* factories, lookups, target assignments and reads, and releases: no write
TargetNext ==
    \/ ObjNew
    \/ RepoGetitem
    \/ TagGetTarget
    \/ TagSetTarget
    \/ DropWrapper
    \/ UseFreed

\* the calls that take and give back references: all but write
RefsNext ==
    \/ ObjNew
    \/ RepoGetitem
    \/ TagGetTarget
    \/ TagSetTarget
    \/ DropWrapper
    \/ DropRepo


(* ------------------------------------------------------------------ *)
(* The Tree as a state machine: one action per Python-level call      *)
(* ------------------------------------------------------------------ *)
\* an opened repository with room for the given numbers of wrappers and
\* native objects, no object wrapped yet, and a new empty Tree
Opened(wrappers, handles) ==
    /\ tree = <<>>
    /\ last = NoCall
    /\ lastAdd = NoAdd
    /\ py_entry = NoTreeEntry
    /\ odb = FixtureOdb
    /\ objs = [h \in 1..handles |-> NoObj]
    /\ wr = [w \in 1..wrappers |-> NoWrapper]
    /\ res = NoResult
    /\ hist = [writes |-> {}, lost |-> FALSE, gained |-> FALSE]
    /\ repo = NewRepository

Init == Opened(MaxWrappers, MaxObjs)

TreeLen ==
    /\ last' = Outcome("len", PyOther, PyOther, PyOther, tree, NoEntry, Tree_len(tree), NoErr)
    /\ UNCHANGED <<tree, lastAdd, py_entry>>
    /\ UNCHANGED repoVars

TreeContains ==
    /\ \E key \in PlainKeyArgs : \E r \in Tree_contains(tree, key) :
           /\ last' = Outcome("contains", key, PyOther, PyOther, tree, NoEntry, r.ret, r.err)
           /\ UNCHANGED <<tree, lastAdd, py_entry>>
    /\ UNCHANGED repoVars

TreeGetitem ==
    /\ \E key \in KeyArgs : \E r \in Tree_getitem(tree, key) :
           /\ last' = Outcome("getitem", key, PyOther, PyOther, tree, r.entry, 0, r.err)
           /\ UNCHANGED <<tree, lastAdd, py_entry>>
    /\ UNCHANGED repoVars

TreeDelitem ==
    /\ \E key \in KeyArgs : \E r \in Tree_delitem(tree, key, FALSE) :
           /\ tree' = r.tree
           /\ last' = Outcome("delitem", key, PyOther, PyOther, tree, NoEntry, r.ret, r.err)
           /\ lastAdd' = IF r.err = NoErr THEN NoAdd ELSE lastAdd
           /\ IF r.err # NoErr THEN py_entry' = py_entry
              ELSE \E rm \in RemovedSlots(tree, key) :
                      /\ r.tree \in entry_resort(RemoveAt(tree, rm))
                      /\ py_entry' \in EntryAfter(py_entry, tree, r.tree, rm)
    /\ UNCHANGED repoVars

TreeSetitem ==
    /\ \E key \in PlainKeyArgs : \E r \in Tree_delitem(tree, key, TRUE) :
           /\ tree' = r.tree
           /\ last' = Outcome("setitem", key, PyOther, PyOther, tree, NoEntry, r.ret, r.err)
           /\ lastAdd' = IF r.err = NoErr THEN NoAdd ELSE lastAdd
           /\ UNCHANGED py_entry
    /\ UNCHANGED repoVars

TreeAddEntry ==
    /\ Len(tree) < MaxEntries
    /\ \E args \in AddArgs, nomem \in BOOLEAN :
         \E r \in Tree_add_entry(tree, args[1], args[2], args[3], nomem) :
            /\ tree' = r.tree
            /\ last' = Outcome("add_entry", args[1], args[2], args[3], tree, NoEntry, r.ret, r.err)
            /\ lastAdd' = IF r.err = NoErr
                          THEN [live |-> TRUE, sha |-> args[1], name |-> args[2].s,
                                attr |-> args[3].i,
                                dup |-> \E k \in 1..Len(tree) : tree[k].name = args[2].s]
                          ELSE lastAdd
            /\ py_entry' \in EntryAfter(py_entry, tree, r.tree, 0)
    /\ UNCHANGED repoVars

\* entry = tree[key], kept by the caller (an entry it held before is given up)
EntryHold ==
    /\ \E key \in KeyArgs : \E r \in Tree_getitem(tree, key) :
           /\ last' = Outcome("getitem", key, PyOther, PyOther, tree, r.entry, 0, r.err)
           /\ IF r.err # NoErr THEN py_entry' = py_entry
              ELSE \E slot \in 1..Len(tree) :
                      /\ tree[slot] = r.entry
                      /\ py_entry' = [live |-> TRUE, entry |-> slot, freed |-> NoEntry]
           /\ UNCHANGED <<tree, lastAdd>>
    /\ UNCHANGED repoVars

\* entry.name on the entry the caller holds: ret is the slot that was read,
\* 0 when the memory read is no slot of the tree
EntryGetName ==
    /\ py_entry.live
    /\ \E d \in Deref(tree, py_entry) :
           last' = Outcome("entry_name", PyOther,
                           IF d.ok THEN PyStr(TreeEntry_get_name(d.entry)) ELSE PyNone,
                           PyOther, tree, d.entry, py_entry.entry,
                           IF d.ok THEN NoErr ELSE Raise("Crash", PyOther))
    /\ UNCHANGED <<tree, lastAdd, py_entry>>
    /\ UNCHANGED repoVars

\* del entry
EntryDrop ==
    /\ py_entry.live
    /\ py_entry' = TreeEntry_dealloc(py_entry)
    /\ last' = Outcome("entry_del", PyOther, PyOther, PyOther, tree, NoEntry, 0, NoErr)
    /\ UNCHANGED <<tree, lastAdd>>
    /\ UNCHANGED repoVars

\* a Tree that changes while its caller holds one of its entries
EntryNext ==
    \/ TreeAddEntry
    \/ TreeDelitem
    \/ EntryHold
    \/ EntryGetName
    \/ EntryDrop

TreeNext ==
    \/ TreeLen
    \/ TreeContains
    \/ TreeGetitem
    \/ TreeDelitem
    \/ TreeSetitem
    \/ TreeAddEntry

SpecTree == Init /\ [][TreeNext]_vars

SpecEntry == Init /\ [][EntryNext]_vars

SpecRepo == Init /\ [][RepoNext]_vars

\* the same machine with room for one more wrapper and one more native
\* object: a Tag, its target and the wrapper a read of Tag.target makes
AliasInit == Opened(MaxWrappers + 1, MaxObjs + 1)

SpecAlias == AliasInit /\ [][RepoNext]_vars

SpecLife == Init /\ [][LifeNext]_vars

SpecRefs == Init /\ [][RefsNext]_vars

SpecErr == Init /\ [][ErrNext]_vars

SpecInit == Init /\ [][InitNext]_vars

SpecOid == Init /\ [][OidNext]_vars

SpecMut == Init /\ [][MutNext]_vars

SpecLookup == Init /\ [][LookupNext]_vars

\* room for a Tag, its target and the wrapper Tag.target returns
SpecTarget == AliasInit /\ [][TargetNext]_vars

(* ------------------------------------------------------------------ *)
(* Properties of the Tree                                             *)
(* ------------------------------------------------------------------ *)
Count(e, t) == Cardinality({k \in 1..Len(t) : t[k] = e})

\* t2 is t with exactly one occurrence of e taken out
RemovedOne(t, t2, e) ==
    /\ Len(t2) = Len(t) - 1
    /\ \A k \in 1..Len(t) :
          Count(t[k], t2) = Count(t[k], t) - (IF t[k] = e THEN 1 ELSE 0)
    /\ \A k \in 1..Len(t2) : Count(t2[k], t) > 0

InRange(i, n) == 0 - n <= i /\ i <= n - 1
Normalized(i, n) == IF i < 0 THEN n + i ELSE i

\* C1: get(i) on a tree of length n succeeds exactly when -n <= i <= n-1; it
\* then yields the entry at position i, counted from the end (n + i) when i is
\* negative; any other i fails with IndexError carrying i itself.
C1_GetByIndex ==
    (last.op = "getitem" /\ PyInt_Check(last.key)) =>
        LET n == Len(last.pre)
            i == last.key.i
        IN  /\ (last.err = NoErr) <=> InRange(i, n)
            /\ last.err = NoErr => last.entry = last.pre[Normalized(i, n) + 1]
            /\ last.err # NoErr =>
                  /\ last.err = Raise("IndexError", PyInt(i))
                  /\ last.entry = NoEntry

C1_Witness ==
    /\ last.op = "getitem" /\ last.key = PyInt(-1)
    /\ Len(last.pre) = 3 /\ last.err = NoErr
    /\ last.entry = last.pre[3]

\* C2: delete(i) resolves i as get(i) does: for i in [-n, n-1] it removes
\* exactly the entry at the normalized position, leaving n-1 entries and every
\* other entry present; for any other i it fails with IndexError and leaves
\* the tree as it was.
C2_DeleteByIndex ==
    (last.op = "delitem" /\ PyInt_Check(last.key)) =>
        LET n == Len(last.pre)
            i == last.key.i
        IN  IF InRange(i, n)
            THEN /\ last.err = NoErr
                 /\ RemovedOne(last.pre, tree, last.pre[Normalized(i, n) + 1])
            ELSE /\ last.err = Raise("IndexError", PyInt(i))
                 /\ tree = last.pre

C2_Witness ==
    /\ last.op = "delitem" /\ last.key = PyInt(-2)
    /\ Len(last.pre) = 3 /\ last.err = NoErr /\ Len(tree) = 2
    /\ last.pre[1].name # last.pre[2].name /\ last.pre[2].name # last.pre[3].name

\* C3: delete by name removes exactly one entry of that name and leaves the
\* length one less; delete of a name no entry has fails with KeyError carrying
\* the name and changes nothing.
C3_DeleteByName ==
    (last.op = "delitem" /\ PyString_Check(last.key)) =>
        IF \E k \in 1..Len(last.pre) : last.pre[k].name = last.key.s
        THEN /\ last.err = NoErr
             /\ Len(tree) = Len(last.pre) - 1
             /\ \E k \in 1..Len(last.pre) :
                   /\ last.pre[k].name = last.key.s
                   /\ RemovedOne(last.pre, tree, last.pre[k])
        ELSE /\ last.err = Raise("KeyError", last.key)
             /\ tree = last.pre

C3_Witness ==
    /\ last.op = "delitem" /\ last.key = PyStr(<<"a">>)
    /\ last.err = NoErr /\ Len(last.pre) = 3 /\ Len(tree) = 2
    /\ last.pre[1].name = <<"a">> /\ last.pre[2].name = <<"a">>
    /\ last.pre[1] # last.pre[2]
    /\ \E k \in 1..2 : tree[k].name = <<"a">>

\* C4: tree[key] = value fails with ValueError for every key, and the tree
\* keeps its length and entries.
C4_AssignRejected ==
    last.op = "setitem" =>
        /\ last.err.exc = "ValueError"
        /\ last.ret = -1
        /\ tree = last.pre

C4_Witness ==
    /\ last.op = "setitem" /\ last.key = PyStr(<<"a">>)
    /\ \E k \in 1..Len(tree) : tree[k].name = <<"a">>
    /\ last.err.exc = "ValueError"

\* what the read just made says about the entry add_entry just added
AddedIsFound ==
    /\ (last.op = "contains" /\ last.key = PyStr(lastAdd.name)) => last.ret = 1
    /\ (last.op = "getitem" /\ last.key = PyStr(lastAdd.name)) =>
          /\ last.err = NoErr
          /\ TreeEntry_get_name(last.entry) = lastAdd.name

AddedIsReturned ==
    (last.op = "getitem" /\ last.key = PyStr(lastAdd.name)) =>
        /\ TreeEntry_get_attributes(last.entry) = lastAdd.attr
        /\ TreeEntry_get_sha(last.entry) = ToLower(lastAdd.sha.s)

\* C5 as stated: after a successful add_entry(id, name, attributes) with a
\* valid identifier, contains(name) is true and get(name) returns an entry
\* with that name, those attributes and that identifier.
C5_Original ==
    (lastAdd.live /\ ValidSha(lastAdd.sha)) => (AddedIsFound /\ AddedIsReturned)

\* C5 as amended: after a successful add_entry(id, name, attributes) with a
\* valid identifier, contains(name) is true and get(name) returns an entry of
\* that name; when the tree had no entry of that name before the call, that
\* entry has those attributes and that identifier.
C5_AddThenGet ==
    (lastAdd.live /\ ValidSha(lastAdd.sha)) =>
        /\ AddedIsFound
        /\ ~lastAdd.dup => AddedIsReturned

C5_Witness ==
    /\ lastAdd.live /\ ~lastAdd.dup /\ lastAdd.sha = PyStr(ShaUpper)
    /\ last.op = "getitem" /\ last.key = PyStr(lastAdd.name)
    /\ Len(tree) = 2
    /\ last.entry.attr = 16384

(* ------------------------------------------------------------------ *)
(* Properties of the repository, its objects and its tags             *)
(* ------------------------------------------------------------------ *)
\* target() of the Tag w returns None
TargetIsNone(w) ==
    LET r == Tag_get_target(wr, objs, w)
    IN  r.status = "ok" /\ r.w = 0

\* C6: once a write() has succeeded and left the object the identifier id,
\* in every later state contains(id) is true and lookup(id) returns an
\* object whose identifier() is id.
C6_WrittenStaysFound ==
    \A id \in hist.writes :
        /\ Repository_contains(objs, odb, PyStr(id)) = [ret |-> 1, err |-> NoErr]
        /\ \A r \in Repository_getitem(wr, objs, odb, PyStr(id)) :
              /\ r.err = NoErr
              /\ r.w # 0
              /\ Object_get_sha(r.wr, r.objs, r.w) = PyStr(id)

\* C7: lookup with a well-formed identifier that the store has never been
\* given fails with KeyError (NotFound) whose key is the value exactly as the
\* caller passed it, and returns no object.
C7_UnknownNotFound ==
    (/\ res.op = "getitem"
     /\ ValidSha(res.key)
     /\ git_odb_exists(odb, py_str_to_git_oid(res.key).oid) = 0) =>
        /\ res.err = Raise("KeyError", res.key)
        /\ res.obj = 0

C7_Witness ==
    /\ res.op = "getitem" /\ res.key = PyStr(ShaUpper)
    /\ res.err.exc = "KeyError" /\ res.err.arg.s # ToLower(ShaUpper)
    /\ hist.writes # {}

\* C8: identifier() of an object is None exactly when the object is Owned
\* (built by a factory) and no write() on it has succeeded; an identifier
\* appears only on a successful write() and never disappears.
C8_NoneIffOwnedUnwritten ==
    /\ \A w \in HeldWrappers :
          (Object_get_sha(wr, objs, w) = PyNone) <=>
              (wr[w].own_obj = 1 /\ ~wr[w].written)
    /\ ~hist.lost
    /\ ~hist.gained

\* C9: a Tag fresh from the factory has target() None and target_type()
\* None; after set_target(x) has succeeded with an Object x, target_type()
\* is x.type() and target() returns an Object of that type.
C9_TargetAfterSet ==
    /\ (res.op = "new" /\ res.err = NoErr /\ res.key = PyInt(GIT_OBJ_TAG)) =>
          /\ TargetIsNone(res.obj)
          /\ Tag_get_target_type(wr, objs, res.obj) = PyNone
    /\ (res.op = "set_target" /\ res.err = NoErr) =>
          /\ Tag_get_target_type(wr, objs, res.w) = Object_get_type(wr, objs, res.x)
          /\ LET r == Tag_get_target(wr, objs, res.w)
             IN  /\ r.status # "crash"
                 /\ r.status = "ok" =>
                       /\ r.w # 0
                       /\ Object_get_type(r.wr, objs, r.w) =
                              Object_get_type(wr, objs, res.x)

\* C10: for every Tag, from the factory or from a lookup, after any calls of
\* set_target: target_type() is None exactly when target() is None, and the
\* wrapper's target slot is empty exactly when the native tag has no target.
C10_SlotMatchesTarget ==
    \A w \in LiveWrappers :
        wr[w].kind = GIT_OBJ_TAG =>
            /\ (Tag_get_target_type(wr, objs, w) = PyNone) <=> TargetIsNone(w)
            /\ (wr[w].target = 0) <=> (git_tag_target(objs, wr[w].obj) = 0)

C10_Witness ==
    /\ res.op = "set_target" /\ res.err = NoErr
    /\ wr[res.w].own_obj = 1 /\ wr[res.x].kind = GIT_OBJ_BLOB
    /\ Tag_get_target_type(wr, objs, res.w) = PyInt(GIT_OBJ_BLOB)
    /\ ~TargetIsNone(res.w)

(* ------------------------------------------------------------------ *)
(* Properties of the reference counts                                 *)
(* ------------------------------------------------------------------ *)
\* the Tags whose target slot holds the wrapper x
TagsHolding(x) == {w \in LiveWrappers : wr[w].kind = GIT_OBJ_TAG /\ wr[w].target = x}

\* the references to the wrapper x that exist: the caller's and one for each
\* Tag that has x as its target
Holders(x) == (IF wr[x].held THEN 1 ELSE 0) + Cardinality(TagsHolding(x))

\* C11: a Tag, from the factory or from a lookup, holds exactly one counted
\* reference to its current target and none to an earlier one: the reference
\* count of every wrapper is the number of references to it that exist (the
\* caller's, and one for each Tag whose target it is), so that set_target and
\* the destruction of the Tag give back exactly what the Tag took.
C11_OneReferencePerTarget ==
    \A x \in LiveWrappers : wr[x].ob_refcnt = Holders(x)

\* the live wrappers bound to the Repository
Bound == {w \in LiveWrappers : wr[w].repo = 1}

C13_RepositoryDestroyed ==
    (~repo.held /\ LiveWrappers = {}) => (repo.ob_refcnt = 0 /\ repo.handle = 0)

\* C14: the destruction of a Borrowed wrapper (own_obj 0) never frees its
\* native object; the destruction of an Owned wrapper of any kind, Tag
\* included, frees its native object exactly once.
C14_FreeOnDestroy ==
    [][\A w \in DOMAIN wr :
          (wr[w].live /\ ~wr'[w].live) =>
              LET h == wr[w].obj
              IN  /\ wr[w].own_obj = 0 => objs'[h].frees = objs[h].frees
                  /\ wr[w].own_obj # 0 =>
                        (objs[h].frees = 0 /\ objs'[h].frees = 1)]_vars

(* ------------------------------------------------------------------ *)
(* Properties of the error translator and of input validation         *)
(* ------------------------------------------------------------------ *)
\* C15: the translator raises exactly one error for every negative code and
\* offending input: MemoryError for out of memory, GitError from errno for an
\* OS failure, GitError "Invalid object type." for a wrong object type; for
\* a malformed identifier TypeError when the input is no text and ValueError
\* with the value when it is; KeyError with the value for a missing key;
\* GitError "Corrupted object" with the value for corrupted bytes; the
\* generic GitError for every other code.
C15_ErrorTranslator ==
    res.op = "Error_set_py_str" =>
        LET err == res.val.s[1]
            v == res.key
        IN  /\ res.err # NoErr
            /\ err = "GIT_ENOMEM" => res.err = Raise("MemoryError", PyOther)
            /\ err = "GIT_EOSERR" => res.err = Raise("GitError_errno", PyOther)
            /\ err = "GIT_EOBJTYPE" => res.err = Raise("GitError_objtype", PyOther)
            /\ err = "GIT_ENOTOID" =>
                  res.err = IF PyString_Check(v) THEN Raise("ValueError", v)
                            ELSE Raise("TypeError", PyOther)
            /\ err = "GIT_ENOTFOUND" => res.err = Raise("KeyError", v)
            /\ err = "GIT_EOBJCORRUPTED" => res.err = Raise("GitError_corrupted", v)
            /\ err \notin {"GIT_ENOMEM", "GIT_EOSERR", "GIT_EOBJTYPE", "GIT_ENOTOID",
                           "GIT_ENOTFOUND", "GIT_EOBJCORRUPTED"} =>
                  res.err = Raise("GitError", PyOther)

C15_Witness ==
    /\ res.op = "Error_set_py_str"
    /\ res.val = ErrCode("GIT_ENOTOID") /\ res.key = PyInt(7)
    /\ res.err.exc = "TypeError"

\* C16: construction validates its arguments before it calls the store.
\* Repository with keywords or with other than one argument raises TypeError
\* without a git_repository_open call and binds no handle; a factory with
\* keywords or with an argument that is no Repository raises TypeError and
\* leaves the native objects, the wrappers and the Repository's count as
\* they were.
C16_ValidationFirst ==
    [][/\ (res'.op = "open" /\ (res'.val = PyOther \/ Len(res'.key.s) # 1)) =>
            /\ res'.err = Raise("TypeError", PyOther)
            /\ res'.x = 0
            /\ res'.obj = 0
            /\ repo' = repo
       /\ (res'.op = "new" /\ (res'.val.s[1] \/ ~res'.val.s[2])) =>
            /\ res'.err = Raise("TypeError", PyOther)
            /\ res'.w = 0
            /\ objs' = objs
            /\ wr' = wr
            /\ repo' = repo]_vars

C16_Witness ==
    /\ res.op = "new" /\ ~res.val.s[2]
    /\ res.err = Raise("TypeError", PyOther)
    /\ LiveWrappers # {}
    /\ repo.ob_refcnt = 1 + Cardinality(LiveWrappers)

\* C17: a call of Tree.__contains__ ends in one of two ways: it returns 0 or 1
\* with no exception set, or it returns -1 with an exception set.
C17_ValueOrError ==
    last.op = "contains" =>
        \/ last.err = NoErr /\ last.ret \in {0, 1}
        \/ last.err # NoErr /\ last.ret = -1

(* ------------------------------------------------------------------ *)
(* Properties of the identifier texts                                 *)
(* ------------------------------------------------------------------ *)
\* C18: Repository.__contains__, Repository.read, Tree.add_entry and the sha
\* setter of a TreeEntry raise ValueError with the text for every text that
\* is not 40 hexadecimal digits.
C18_InvalidIdentifier ==
    /\ (res.op \in {"contains", "read"} /\ PyString_Check(res.key) /\ ~ValidSha(res.key)) =>
          res.err = Raise("ValueError", res.key)
    /\ (last.op \in {"add_entry", "set_sha"} /\ PyString_Check(last.key)
            /\ ~ValidSha(last.key)) =>
          last.err = Raise("ValueError", last.key)

\* C19: setting the sha of a TreeEntry to a text of 40 hexadecimal digits in
\* any letter case succeeds, and the sha then read from the entry is that
\* text in lower case, 40 characters long.
C19_RoundTrip ==
    (last.op = "set_sha" /\ ValidSha(last.key)) =>
        /\ last.err = NoErr
        /\ PyString_Check(last.name)
        /\ Len(last.name.s) = GIT_OID_HEXSZ
        /\ last.name.s = ToLower(last.key.s)
        /\ \A k \in 1..Len(last.name.s) : \E d \in 1..Len(HexDigits) : last.name.s[k] = HexDigits[d]

C19_Witness ==
    /\ last.op = "set_sha"
    /\ last.key = PyStr(Cycle(2, GIT_OID_HEXSZ))
    /\ last.name.s # last.key.s
    /\ last.err = NoErr
    /\ last.pre[1].oid # last.entry.oid

\* C20: an accessor of a TreeEntry reads a slot of the tree, never the memory
\* of an entry the tree has removed.
C20_NoStaleAccess ==
    last.op = "entry_name" => (last.ret # 0 /\ last.err = NoErr)

(* ------------------------------------------------------------------ *)
(* Properties of the setters                                          *)
(* ------------------------------------------------------------------ *)
\* the values a setter takes: a text for message and name, a (text, text,
\* integer) triple for committer, author and tagger
SetterOps == {"set_message", "set_name", "set_committer", "set_author", "set_tagger"}
RightValue(op, value) ==
    IF op \in {"set_message", "set_name"} THEN PyString_Check(value)
    ELSE /\ PyTuple_Check(value)
         /\ Len(value.s) = 3
         /\ PyString_Check(value.s[1]) /\ PyString_Check(value.s[2])
         /\ PyInt_Check(value.s[3])

\* C21: a setter of a Commit or a Tag given a value of the wrong type or
\* arity, and Tag.target given a value that is no Commit, Tree, Blob or Tag,
\* sets an error and leaves the native objects, the wrappers (the target
\* slot and the count of the previous target among them) and the
\* Repository's count as they were.
C21_FailedSetterChangesNothing ==
    [][/\ (res'.op \in SetterOps /\ ~RightValue(res'.op, res'.key)) =>
            /\ res'.err.exc \in {"TypeError", "SystemError"}
            /\ res'.val = PyInt(-1)
            /\ objs' = objs /\ wr' = wr /\ repo' = repo
       /\ (res'.op = "set_target" /\ res'.x <= 0) =>
            /\ res'.err.exc = "TypeError"
            /\ res'.val = PyInt(-1)
            /\ objs' = objs /\ wr' = wr /\ repo' = repo]_vars

(* ------------------------------------------------------------------ *)
(* Properties of lookup by type                                       *)
(* ------------------------------------------------------------------ *)
\* C22: a lookup that returns an object returns a Borrowed one (own_obj = 0);
\* when the caller wants a type other than GIT_OBJ_ANY the object returned
\* has that type.
C22_LookupHonoursType ==
    (res.op = "lookup" /\ res.obj # 0) =>
        /\ wr[res.obj].own_obj = 0
        /\ res.x # GIT_OBJ_ANY => git_object_type(objs, wr[res.obj].obj) = res.x

(* ------------------------------------------------------------------ *)
(* Properties of the native handles behind live wrappers              *)
(* ------------------------------------------------------------------ *)
\* C23: the native handle of every wrapper the caller holds has never been
\* freed, whatever factories, lookups, target assignments, target reads and
\* destructions came before; so no call on a held wrapper reads freed memory.
C23_NoFreedHandle ==
    /\ \A w \in HeldWrappers : objs[wr[w].obj].frees = 0
    /\ res.op # "use"

====
